---- MODULE Spec2Model ----
(***************************************************************************)
(* Appointment scheduling and availability engine of doctym-backend.       *)
(*                                                                         *)
(* Time is counted in ticks of half a minute on a scaled-down clock: a     *)
(* minute is Minute ticks, an hour is Hour ticks and a calendar day is     *)
(* HoursPerDay hours.  A datetime is the number of ticks since midnight of *)
(* day 0 (a Monday); a time of day is a number of ticks since midnight.    *)
(* None stands for Python's None / SQL NULL.                               *)
(***************************************************************************)
EXTENDS Integers, Sequences, FiniteSets, TLC

VARIABLES
    working_hours,    \* table working_hours: a set of rows
    wh_next_id,       \* next primary key of working_hours
    appointments,     \* table appointments: a sequence, row i has id i
    notifications,    \* table notifications: a sequence, row i has id i
    now,              \* the wall clock, datetime.now()
    next_run_time,    \* when the interval job 'check_appointments' is due next
    response,         \* the HTTP response of the last request handled
    inflight,         \* booking requests being handled, per worker
    tick              \* the reminder job's position and selected appointments

vars == <<working_hours, wh_next_id, appointments, notifications, now,
          next_run_time, response, inflight, tick>>

----------------------------------------------------------------------------
(* Units and bounds *)

Minute == 2
Hour == 4
HoursPerDay == 3
DayLen == HoursPerDay * Hour

MaxAppointments == 2
MaxWorkingHours == 2
MaxStart == 10
MaxNow == 1
MaxNotifications == 6
NumWorkers == 2

None == -1
NoRow == [id |-> None]              \* .first() found no row

\* users are created by /api/auth/register; is_doctor is set there and never changed
Doctors == {1, 2}
Patients == {3}
Users == Doctors \cup Patients
\* the doctor who declares working hours; the other doctor takes part as a
\* foreign doctor only
Providers == {d \in Doctors : \A e \in Doctors : d <= e}
is_doctor(u) == u \in Doctors

SCHEDULED == "scheduled"
CONFIRMED == "confirmed"
IN_PROGRESS == "in_progress"
COMPLETED == "completed"
CANCELLED == "cancelled"
AppointmentStatus == {SCHEDULED, CONFIRMED, IN_PROGRESS, COMPLETED, CANCELLED}

----------------------------------------------------------------------------
(* datetime helpers *)

DateOf(t) == t \div DayLen          \* datetime.date()
TimeOf(t) == t % DayLen             \* datetime.time()
Weekday(d) == d % 7                 \* date.weekday(), 0 = Monday
Combine(d, tm) == d * DayLen + tm   \* datetime.combine(date, time)
TimeMax == DayLen - 1               \* time.max, the last instant of a day
strftimeHM(tm) == tm - (tm % Minute)  \* time.strftime("%H:%M") drops the seconds

\* the datetimes offered to bookings, and the dates and weekdays they fall on
StartTimes == 0..MaxStart
Dates == {DateOf(t) : t \in StartTimes}
Weekdays == {Weekday(d) : d \in Dates}

Resp(code, detail) == [code |-> code, detail |-> detail]

----------------------------------------------------------------------------
(* ConflictGuard: appointments.is_time_slot_available *)

overlapping_appointment_strict(doctor_id, start_time, end_time) ==
    \E i \in 1..Len(appointments) :
        LET a == appointments[i] IN
        /\ a.doctor_id = doctor_id
        /\ a.status # CANCELLED
        /\ \/ (a.start_time < start_time /\ a.end_time > start_time)
           \/ (a.start_time < end_time /\ a.end_time > end_time)

overlapping_appointment(doctor_id, start_time, end_time) ==
    \E i \in 1..Len(appointments) :
        LET a == appointments[i] IN
        /\ a.doctor_id = doctor_id
        /\ a.status # CANCELLED
        /\ \/ (a.start_time <= start_time /\ a.end_time > start_time)
           \/ (a.start_time < end_time /\ a.end_time >= end_time)
           \/ (a.start_time >= start_time /\ a.end_time <= end_time)

lookup_working_hours_anyAvailability(doctor_id, day_of_week) ==
    LET rows == {w \in working_hours : /\ w.doctor_id = doctor_id
                                       /\ w.day_of_week = day_of_week}
    IN IF rows = {} THEN NoRow
       ELSE CHOOSE w \in rows : \A v \in rows : w.id <= v.id

\* db.query(WorkingHours).filter(doctor_id, day_of_week, is_available).first():
\* the matching row the store returns first (lowest primary key), or None
lookup_working_hours(doctor_id, day_of_week) ==
    LET rows == {w \in working_hours : /\ w.doctor_id = doctor_id
                                       /\ w.day_of_week = day_of_week
                                       /\ w.is_available}
    IN IF rows = {} THEN NoRow
       ELSE CHOOSE w \in rows : \A v \in rows : w.id <= v.id

\* break_start <= t <= break_end as Python evaluates the chained comparison:
\* "TypeError" when a bound that is compared is None
break_contains(wh, t) ==
    IF wh.break_start = None THEN "TypeError"
    ELSE IF ~(wh.break_start <= t) THEN "False"
    ELSE IF wh.break_end = None THEN "TypeError"
    ELSE IF t <= wh.break_end THEN "True" ELSE "False"

\* "True", "False", or "TypeError" when the break comparison raises
is_time_slot_available(doctor_id, start_time, end_time) ==
    IF overlapping_appointment(doctor_id, start_time, end_time) THEN "False"
    ELSE
      LET wh == lookup_working_hours(doctor_id, Weekday(DateOf(start_time)))
          appointment_start_time == TimeOf(start_time)
          appointment_end_time == TimeOf(end_time)
      IN IF wh = NoRow THEN "False"
         ELSE IF \/ appointment_start_time < wh.start_time
                 \/ appointment_end_time > wh.end_time THEN "False"
         ELSE IF wh.has_break THEN
            LET c1 == break_contains(wh, appointment_start_time) IN
            IF c1 = "TypeError" THEN "TypeError"
            ELSE IF c1 = "True" THEN "False"
            ELSE LET c2 == break_contains(wh, appointment_end_time) IN
                 IF c2 = "TypeError" THEN "TypeError"
                 ELSE IF c2 = "True" THEN "False" ELSE "True"
         ELSE "True"

----------------------------------------------------------------------------
(* Init *)

Workers == 1..NumWorkers
IdleWorker == [pc |-> "idle", user |-> None, doctor_id |-> None,
               start_time |-> None, appointment_id |-> None]
IdleTick == [pc |-> "idle", selected |-> <<>>]

\* the process starts less than a day before the first instant offered to
\* bookings, so that the first run of the job looks ahead to 2 * Hour
StartupTime == 0 - (DayLen - Hour)

Init ==
    /\ working_hours = {}
    /\ wh_next_id = 1
    /\ appointments = <<>>
    /\ notifications = <<>>
    /\ now = StartupTime
    /\ next_run_time = StartupTime + Hour
    /\ response = Resp(0, "")
    /\ inflight = [w \in Workers |-> IdleWorker]
    /\ tick = IdleTick

----------------------------------------------------------------------------
(* WorkingHoursCalendar: routers/working_hours.py *)

\* request bodies (WorkingHoursCreate) offered to create and update: a whole-day
\* window without and with a break, a break shorter than an appointment, a
\* window starting off the minute, the malformed bodies, and a break that
\* lies after the end of the window
Body(d, s, e, hb, bs, be) ==
    [day_of_week |-> d, start_time |-> s, end_time |-> e,
     has_break |-> hb, break_start |-> bs, break_end |-> be]
WorkingHoursCreate ==
    UNION {{Body(d, 0, TimeMax, FALSE, None, None),
            Body(d, 0, TimeMax, TRUE, Hour, 2 * Hour),
            Body(d, 0, TimeMax, TRUE, Hour + 1, Hour + Minute),
            Body(d, 1, TimeMax, FALSE, None, None),
            Body(d, Hour, Hour, FALSE, None, None),
            Body(d, 0, TimeMax, TRUE, None, None),
            Body(d, 0, TimeMax, TRUE, 2 * Hour, Hour),
            Body(d, 0, 2 * Hour, TRUE, 2 * Hour, TimeMax)} : d \in Weekdays}

WorkingHoursRow(id, doctor_id, body, is_available) ==
    [id |-> id, doctor_id |-> doctor_id, day_of_week |-> body.day_of_week,
     start_time |-> body.start_time, end_time |-> body.end_time,
     has_break |-> body.has_break, break_start |-> body.break_start,
     break_end |-> body.break_end, is_available |-> is_available]

create_working_hours_noBreakCheck(current_user, doctor_id, body) ==
    /\ wh_next_id <= MaxWorkingHours
    /\ IF current_user # doctor_id \/ ~is_doctor(current_user)
       THEN /\ response' = Resp(403, "Not authorized to set working hours")
            /\ UNCHANGED <<working_hours, wh_next_id>>
       ELSE IF body.start_time >= body.end_time
       THEN /\ response' = Resp(400, "Start time must be before end time")
            /\ UNCHANGED <<working_hours, wh_next_id>>
       ELSE /\ working_hours' = working_hours \cup
                    {WorkingHoursRow(wh_next_id, doctor_id, body, TRUE)}
            /\ wh_next_id' = wh_next_id + 1
            /\ response' = Resp(200, "")
    /\ UNCHANGED <<appointments, notifications, now, next_run_time, inflight, tick>>

create_working_hours_anyUser(current_user, doctor_id, body) ==
    /\ wh_next_id <= MaxWorkingHours
    /\ IF body.start_time >= body.end_time
       THEN /\ response' = Resp(400, "Start time must be before end time")
            /\ UNCHANGED <<working_hours, wh_next_id>>
       ELSE IF body.has_break /\ (body.break_start = None \/ body.break_end = None)
       THEN /\ response' = Resp(400, "Break start and end times are required when has_break is True")
            /\ UNCHANGED <<working_hours, wh_next_id>>
       ELSE IF body.has_break /\ body.break_start >= body.break_end
       THEN /\ response' = Resp(400, "Break start time must be before break end time")
            /\ UNCHANGED <<working_hours, wh_next_id>>
       ELSE /\ working_hours' = working_hours \cup
                    {WorkingHoursRow(wh_next_id, doctor_id, body, TRUE)}
            /\ wh_next_id' = wh_next_id + 1
            /\ response' = Resp(200, "")
    /\ UNCHANGED <<appointments, notifications, now, next_run_time, inflight, tick>>

create_working_hours(current_user, doctor_id, body) ==
    /\ wh_next_id <= MaxWorkingHours
    /\ IF current_user # doctor_id \/ ~is_doctor(current_user)
       THEN /\ response' = Resp(403, "Not authorized to set working hours")
            /\ UNCHANGED <<working_hours, wh_next_id>>
       ELSE IF body.start_time >= body.end_time
       THEN /\ response' = Resp(400, "Start time must be before end time")
            /\ UNCHANGED <<working_hours, wh_next_id>>
       ELSE IF body.has_break /\ (body.break_start = None \/ body.break_end = None)
       THEN /\ response' = Resp(400, "Break start and end times are required when has_break is True")
            /\ UNCHANGED <<working_hours, wh_next_id>>
       ELSE IF body.has_break /\ body.break_start >= body.break_end
       THEN /\ response' = Resp(400, "Break start time must be before break end time")
            /\ UNCHANGED <<working_hours, wh_next_id>>
       ELSE /\ working_hours' = working_hours \cup
                    {WorkingHoursRow(wh_next_id, doctor_id, body, TRUE)}
            /\ wh_next_id' = wh_next_id + 1
            /\ response' = Resp(200, "")
    /\ UNCHANGED <<appointments, notifications, now, next_run_time, inflight, tick>>

update_working_hours(current_user, doctor_id, working_hours_id, body) ==
    /\ IF current_user # doctor_id \/ ~is_doctor(current_user)
       THEN /\ response' = Resp(403, "Not authorized to update working hours")
            /\ UNCHANGED working_hours
       ELSE LET found == {w \in working_hours : w.id = working_hours_id
                                                /\ w.doctor_id = doctor_id}
            IN IF found = {}
               THEN /\ response' = Resp(404, "Working hours not found")
                    /\ UNCHANGED working_hours
               ELSE LET old == CHOOSE w \in found : TRUE IN
                    /\ working_hours' = (working_hours \ {old}) \cup
                           {WorkingHoursRow(old.id, old.doctor_id, body, old.is_available)}
                    /\ response' = Resp(200, "")
    /\ UNCHANGED <<wh_next_id, appointments, notifications, now, next_run_time,
                   inflight, tick>>

delete_working_hours(current_user, doctor_id, working_hours_id) ==
    /\ IF current_user # doctor_id \/ ~is_doctor(current_user)
       THEN /\ response' = Resp(403, "Not authorized to delete working hours")
            /\ UNCHANGED working_hours
       ELSE LET found == {w \in working_hours : w.id = working_hours_id
                                                /\ w.doctor_id = doctor_id}
            IN IF found = {}
               THEN /\ response' = Resp(404, "Working hours not found")
                    /\ UNCHANGED working_hours
               ELSE /\ working_hours' = working_hours \ found
                    /\ response' = Resp(200, "Working hours deleted successfully")
    /\ UNCHANGED <<wh_next_id, appointments, notifications, now, next_run_time,
                   inflight, tick>>

----------------------------------------------------------------------------
(* AvailabilityCalculator: working_hours.get_available_slots *)

\* the (start, end) times of day of the doctor's appointments starting that date
booked_slots(doctor_id, target_date) ==
    LET start_of_day == Combine(target_date, 0)
        end_of_day == Combine(target_date, TimeMax)
    IN {<<TimeOf(appointments[i].start_time), TimeOf(appointments[i].end_time)>> :
          i \in {j \in 1..Len(appointments) :
                    /\ appointments[j].doctor_id = doctor_id
                    /\ appointments[j].start_time >= start_of_day
                    /\ appointments[j].start_time < end_of_day}}

\* the while loop from slot_start on
RECURSIVE slots_from(_, _, _, _)
slots_from(wh, booked, slot_start, slot_end) ==
    IF ~(slot_start + Hour <= slot_end) THEN <<>>
    ELSE
      LET s == TimeOf(slot_start)
          e == TimeOf(slot_start + Hour)
          in_break == /\ wh.has_break
                      /\ wh.break_start # None
                      /\ wh.break_end # None
                      /\ s < wh.break_end
                      /\ e > wh.break_start
          overlap == \E b \in booked : s < b[2] /\ e > b[1]
          rest == slots_from(wh, booked, slot_start + Hour, slot_end)
      IN IF in_break \/ overlap THEN rest
         ELSE <<[start_time |-> strftimeHM(s), end_time |-> strftimeHM(e)]>> \o rest

get_available_slots(doctor_id, target_date) ==
    LET wh == lookup_working_hours(doctor_id, Weekday(target_date)) IN
    IF wh = NoRow THEN <<>>
    ELSE slots_from(wh, booked_slots(doctor_id, target_date),
                    Combine(target_date, wh.start_time),
                    Combine(target_date, wh.end_time))

----------------------------------------------------------------------------
(* AppointmentLifecycle: routers/appointments.py, each handler as one step *)

NewAppointment_twoHours(id, doctor_id, patient_id, start_time) ==
    [id |-> id, doctor_id |-> doctor_id, patient_id |-> patient_id,
     start_time |-> start_time, end_time |-> start_time + 2 * Hour,
     status |-> SCHEDULED]

NewAppointment(id, doctor_id, patient_id, start_time) ==
    [id |-> id, doctor_id |-> doctor_id, patient_id |-> patient_id,
     start_time |-> start_time, end_time |-> start_time + Hour,
     status |-> SCHEDULED]

ConfirmationFor_toDoctor(id, appt) ==
    [id |-> id, user_id |-> appt.doctor_id, title |-> "Appointment Confirmed",
     type |-> "appointment", appointment_id |-> appt.id, is_read |-> FALSE]

\* the Notification row create_appointment adds for a booked appointment
ConfirmationFor(id, appt) ==
    [id |-> id, user_id |-> appt.patient_id, title |-> "Appointment Confirmed",
     type |-> "appointment", appointment_id |-> appt.id, is_read |-> FALSE]

create_appointment_coercing(current_user, doctor_id, start_time) ==
    /\ Len(appointments) < MaxAppointments
    /\ Len(notifications) < MaxNotifications
    /\ LET end_time == start_time + Hour
           ok == is_time_slot_available(doctor_id, start_time, end_time)
           db_appointment == NewAppointment(Len(appointments) + 1, doctor_id,
                                            current_user, start_time)
       IN IF is_doctor(current_user)
          THEN /\ response' = Resp(403, "Doctors cannot create appointments")
               /\ UNCHANGED <<appointments, notifications>>
          ELSE IF ok = "TypeError"
          THEN /\ response' = Resp(500, "Internal Server Error")
               /\ UNCHANGED <<appointments, notifications>>
          ELSE IF ok = "False"
          THEN /\ appointments' = Append(appointments,
                      NewAppointment(Len(appointments) + 1, doctor_id,
                                     current_user, start_time + Hour))
               /\ notifications' = Append(notifications,
                      ConfirmationFor(Len(notifications) + 1,
                          NewAppointment(Len(appointments) + 1, doctor_id,
                                         current_user, start_time + Hour)))
               /\ response' = Resp(200, "")
          ELSE /\ appointments' = Append(appointments, db_appointment)
               /\ notifications' = Append(notifications,
                      ConfirmationFor(Len(notifications) + 1, db_appointment))
               /\ response' = Resp(200, "")
    /\ UNCHANGED <<working_hours, wh_next_id, now, next_run_time, inflight, tick>>

create_appointment(current_user, doctor_id, start_time) ==
    /\ Len(appointments) < MaxAppointments
    /\ Len(notifications) < MaxNotifications
    /\ LET end_time == start_time + Hour
           ok == is_time_slot_available(doctor_id, start_time, end_time)
           db_appointment == NewAppointment(Len(appointments) + 1, doctor_id,
                                            current_user, start_time)
       IN IF is_doctor(current_user)
          THEN /\ response' = Resp(403, "Doctors cannot create appointments")
               /\ UNCHANGED <<appointments, notifications>>
          ELSE IF ok = "TypeError"
          THEN /\ response' = Resp(500, "Internal Server Error")
               /\ UNCHANGED <<appointments, notifications>>
          ELSE IF ok = "False"
          THEN /\ response' = Resp(400, "Time slot is not available")
               /\ UNCHANGED <<appointments, notifications>>
          ELSE /\ appointments' = Append(appointments, db_appointment)
               /\ notifications' = Append(notifications,
                      ConfirmationFor(Len(notifications) + 1, db_appointment))
               /\ response' = Resp(200, "")
    /\ UNCHANGED <<working_hours, wh_next_id, now, next_run_time, inflight, tick>>

update_appointment_status_deleting(current_user, appointment_id, status) ==
    /\ IF appointment_id \notin 1..Len(appointments)
       THEN /\ response' = Resp(500, "Internal Server Error")
            /\ UNCHANGED appointments
       ELSE IF \/ current_user # appointments[appointment_id].doctor_id
               \/ ~is_doctor(current_user)
       THEN /\ response' = Resp(500, "Internal Server Error")
            /\ UNCHANGED appointments
       ELSE /\ appointments' =
                 IF status = CANCELLED
                 THEN [j \in 1..(Len(appointments) - 1) |->
                          IF j < appointment_id THEN appointments[j]
                          ELSE appointments[j + 1]]
                 ELSE [appointments EXCEPT ![appointment_id].status = status]
            /\ response' = Resp(200, "Appointment status updated successfully")
    /\ UNCHANGED <<working_hours, wh_next_id, notifications, now, next_run_time,
                   inflight, tick>>

\* the parameter named status hides fastapi's status module, so building either
\* HTTPException raises AttributeError and the request ends as a 500
update_appointment_status(current_user, appointment_id, status) ==
    /\ IF appointment_id \notin 1..Len(appointments)
       THEN /\ response' = Resp(500, "Internal Server Error")
            /\ UNCHANGED appointments
       ELSE IF \/ current_user # appointments[appointment_id].doctor_id
               \/ ~is_doctor(current_user)
       THEN /\ response' = Resp(500, "Internal Server Error")
            /\ UNCHANGED appointments
       ELSE /\ appointments' = [appointments EXCEPT ![appointment_id].status = status]
            /\ response' = Resp(200, "Appointment status updated successfully")
    /\ UNCHANGED <<working_hours, wh_next_id, notifications, now, next_run_time,
                   inflight, tick>>

check_in_appointment(current_user, appointment_id) ==
    /\ IF appointment_id \notin 1..Len(appointments)
       THEN /\ response' = Resp(404, "Appointment not found")
            /\ UNCHANGED appointments
       ELSE IF \/ current_user # appointments[appointment_id].doctor_id
               \/ ~is_doctor(current_user)
       THEN /\ response' = Resp(403, "Not authorized to check in appointments")
            /\ UNCHANGED appointments
       ELSE /\ appointments' = [appointments EXCEPT ![appointment_id].status = IN_PROGRESS]
            /\ response' = Resp(200, "Appointment checked in successfully")
    /\ UNCHANGED <<working_hours, wh_next_id, notifications, now, next_run_time,
                   inflight, tick>>

----------------------------------------------------------------------------
(* The request handlers, each taken as one atomic step *)

WorkingHoursIds == 1..MaxWorkingHours
AppointmentIds == 1..MaxAppointments + 1
\* the first two slots of a window that starts at midnight
SlotStarts == {t \in StartTimes : t % Hour = 0 /\ t <= Hour}
\* well-formed bodies without a break and on the minute
PlainBodies == {b \in WorkingHoursCreate : ~b.has_break /\ b.start_time = 0}

Next ==
    \/ \E u \in Users, d \in Providers, b \in PlainBodies :
          create_working_hours(u, d, b)
    \/ \E u \in Users, d \in Doctors, t \in SlotStarts :
          create_appointment(u, d, t)
    \/ \E u \in Users, id \in AppointmentIds, st \in AppointmentStatus :
          update_appointment_status(u, id, st)
    \/ \E u \in Users, id \in AppointmentIds :
          check_in_appointment(u, id)

Spec == Init /\ [][Next]_vars

----------------------------------------------------------------------------
(* Availability against admission: the working-hours handlers, bookings at  *)
(* every start time and cancellations                                       *)

AvailNext ==
    \/ \E d \in Providers, b \in WorkingHoursCreate :
          create_working_hours(d, d, b)
    \/ \E d \in Providers, id \in WorkingHoursIds, b \in WorkingHoursCreate :
          update_working_hours(d, d, id, b)
    \/ \E d \in Providers, id \in WorkingHoursIds :
          delete_working_hours(d, d, id)
    \/ \E u \in Patients, d \in Doctors, t \in StartTimes :
          create_appointment(u, d, t)
    \/ \E d \in Doctors, id \in AppointmentIds :
          update_appointment_status(d, id, CANCELLED)

SpecAvail == Init /\ [][AvailNext]_vars

----------------------------------------------------------------------------
(* create_appointment step by step: the availability check, then one step  *)
(* per db.commit().  Requests of different workers interleave between      *)
(* these steps; nothing in the handler locks the provider's rows.          *)

create_appointment_check(w, current_user, doctor_id, start_time) ==
    /\ inflight[w].pc \in {"idle", "done"}
    /\ Len(appointments) + Cardinality({v \in Workers : inflight[v].pc = "insert"})
          < MaxAppointments
    /\ LET ok == is_time_slot_available(doctor_id, start_time, start_time + Hour)
           req == [pc |-> "done", user |-> current_user, doctor_id |-> doctor_id,
                   start_time |-> start_time, appointment_id |-> None]
       IN IF is_doctor(current_user)
          THEN /\ response' = Resp(403, "Doctors cannot create appointments")
               /\ inflight' = [inflight EXCEPT ![w] = req]
          ELSE IF ok = "TypeError"
          THEN /\ response' = Resp(500, "Internal Server Error")
               /\ inflight' = [inflight EXCEPT ![w] = req]
          ELSE IF ok = "False"
          THEN /\ response' = Resp(400, "Time slot is not available")
               /\ inflight' = [inflight EXCEPT ![w] = req]
          ELSE /\ inflight' = [inflight EXCEPT ![w] = [req EXCEPT !.pc = "insert"]]
               /\ UNCHANGED response
    /\ UNCHANGED <<working_hours, wh_next_id, appointments, notifications, now,
                   next_run_time, tick>>

\* db.add(db_appointment); db.commit(); db.refresh(db_appointment)
create_appointment_insert(w) ==
    /\ inflight[w].pc = "insert"
    /\ LET id == Len(appointments) + 1 IN
       /\ appointments' = Append(appointments,
              NewAppointment(id, inflight[w].doctor_id, inflight[w].user,
                             inflight[w].start_time))
       /\ inflight' = [inflight EXCEPT ![w].pc = "qr", ![w].appointment_id = id]
    /\ UNCHANGED <<working_hours, wh_next_id, notifications, now, next_run_time,
                   response, tick>>

\* generate_qr_code; db_appointment.qr_code = qr_code; db.commit()
create_appointment_qr(w) ==
    /\ inflight[w].pc = "qr"
    /\ inflight' = [inflight EXCEPT ![w].pc = "notify"]
    /\ UNCHANGED <<working_hours, wh_next_id, appointments, notifications, now,
                   next_run_time, response, tick>>

\* db.add(notification); db.commit(); return db_appointment
create_appointment_notify(w) ==
    /\ inflight[w].pc = "notify"
    /\ notifications' = Append(notifications,
           ConfirmationFor(Len(notifications) + 1,
                           appointments[inflight[w].appointment_id]))
    /\ inflight' = [inflight EXCEPT ![w].pc = "done"]
    /\ response' = Resp(200, "")
    /\ UNCHANGED <<working_hours, wh_next_id, appointments, now, next_run_time, tick>>

\* QR generation or a later commit raises (the store became unreachable): the
\* request ends as a 500 and the committed appointment row stays
create_appointment_raise(w) ==
    /\ inflight[w].pc \in {"qr", "notify"}
    /\ inflight' = [inflight EXCEPT ![w].pc = "done"]
    /\ response' = Resp(500, "Internal Server Error")
    /\ UNCHANGED <<working_hours, wh_next_id, appointments, notifications, now,
                   next_run_time, tick>>

\* starts half an hour apart up to one hour: equal, overlapping and abutting slots
RacingStarts == {t \in StartTimes : t % (Hour \div 2) = 0 /\ t <= Hour}

StepNext ==
    \/ \E d \in Providers, b \in PlainBodies :
          create_working_hours(d, d, b)
    \/ \E w \in Workers, u \in Patients, d \in Doctors, t \in RacingStarts :
          create_appointment_check(w, u, d, t)
    \/ \E w \in Workers : create_appointment_insert(w)
    \/ \E w \in Workers : create_appointment_qr(w)
    \/ \E w \in Workers : create_appointment_notify(w)
    \/ \E w \in Workers : create_appointment_raise(w)

SpecSteps == Init /\ [][StepNext]_vars

----------------------------------------------------------------------------
(* ReminderScheduler: core/scheduler.py *)

create_appointment_notification(id, appointment, notification_type) ==
    [id |-> id, user_id |-> appointment.patient_id,
     title |-> IF notification_type = "reminder" THEN "Appointment Reminder"
               ELSE "Appointment Confirmed",
     type |-> "appointment", appointment_id |-> appointment.id, is_read |-> FALSE]

upcoming_appointments_anyStatus(T) ==
    LET tomorrow == T + DayLen IN
    {i \in 1..Len(appointments) : /\ appointments[i].start_time <= tomorrow
                                   /\ appointments[i].start_time > T}

upcoming_appointments_deduplicated(T) ==
    LET tomorrow == T + DayLen IN
    {i \in 1..Len(appointments) :
        /\ appointments[i].start_time <= tomorrow
        /\ appointments[i].start_time > T
        /\ appointments[i].status = SCHEDULED
        /\ ~\E k \in 1..Len(notifications) :
               /\ notifications[k].appointment_id = i
               /\ notifications[k].title = "Appointment Reminder"}

upcoming_appointments_sameDay(T) ==
    {i \in 1..Len(appointments) : /\ DateOf(appointments[i].start_time) = DateOf(T)
                                   /\ appointments[i].start_time > T
                                   /\ appointments[i].status = SCHEDULED}

\* the ids the tick's query selects, reading the clock at T
upcoming_appointments(T) ==
    LET tomorrow == T + DayLen IN
    {i \in 1..Len(appointments) : /\ appointments[i].start_time <= tomorrow
                                   /\ appointments[i].start_time > T
                                   /\ appointments[i].status = SCHEDULED}

\* the rows of the ids in sel in the order of their ids, each as a reminder
RECURSIVE reminders_for(_, _, _)
reminders_for(sel, from, next_id) ==
    IF from > Len(appointments) THEN <<>>
    ELSE IF from \in sel
         THEN <<create_appointment_notification(next_id, appointments[from], "reminder")>>
              \o reminders_for(sel, from + 1, next_id + 1)
         ELSE reminders_for(sel, from + 1, next_id)

check_upcoming_appointments_confirming ==
    /\ now >= next_run_time
    /\ LET sel == upcoming_appointments(now) IN
       /\ Len(notifications) + Cardinality(sel) <= MaxNotifications
       /\ notifications' = notifications \o reminders_for(sel, 1, Len(notifications) + 1)
       /\ appointments' = [i \in 1..Len(appointments) |->
                             IF i \in sel
                             THEN [appointments[i] EXCEPT !.status = CONFIRMED]
                             ELSE appointments[i]]
    /\ next_run_time' = next_run_time + Hour
    /\ UNCHANGED <<working_hours, wh_next_id, now, response, inflight, tick>>

\* one run of the hourly job, taken as one step
check_upcoming_appointments ==
    /\ now >= next_run_time
    /\ LET sel == upcoming_appointments(now) IN
       /\ Len(notifications) + Cardinality(sel) <= MaxNotifications
       /\ notifications' = notifications \o reminders_for(sel, 1, Len(notifications) + 1)
    /\ next_run_time' = next_run_time + Hour
    /\ UNCHANGED <<working_hours, wh_next_id, appointments, now, response, inflight, tick>>

\* the clock moves on; a due run of the job happens at its time
advance_clock ==
    /\ now < MaxNow
    /\ now < next_run_time
    /\ now' = now + 1
    /\ UNCHANGED <<working_hours, wh_next_id, appointments, notifications,
                   next_run_time, response, inflight, tick>>

\* starts at and just after midnight, and at and just after the horizon of the
\* job's first run
BoundaryStarts == {t \in StartTimes : t <= 1 \/ t - 2 * Hour \in {0, 1}}

SchedNext ==
    \/ \E d \in Providers, b \in PlainBodies :
          create_working_hours(d, d, b)
    \/ \E u \in Patients, d \in Doctors, t \in BoundaryStarts :
          create_appointment(u, d, t)
    \/ \E d \in Doctors, id \in AppointmentIds :
          update_appointment_status(d, id, CANCELLED)
    \/ check_upcoming_appointments
    \/ advance_clock

SpecSched == Init /\ [][SchedNext]_vars

----------------------------------------------------------------------------
(* Runs of the reminder job that raise.  The job runs under APScheduler's   *)
(* BackgroundScheduler with an IntervalTrigger: the executor catches and    *)
(* logs an exception of the job function, and the next run time is set      *)
(* from the trigger whatever the outcome of the run.                        *)

check_upcoming_appointments_raise_stopping ==
    /\ now >= next_run_time
    /\ LET sel == upcoming_appointments(now)
           reminders == reminders_for(sel, 1, Len(notifications) + 1)
       IN \E n \in 0..Len(reminders) :
             /\ n = 0 \/ n < Len(reminders)
             /\ Len(notifications) + n <= MaxNotifications
             /\ notifications' = notifications \o SubSeq(reminders, 1, n)
    /\ next_run_time' = now + DayLen
    /\ tick' = [pc |-> "failed", selected |-> <<>>]
    /\ UNCHANGED <<working_hours, wh_next_id, appointments, now, response, inflight>>

\* a run in which the query or one of the commits raises (the store is
\* unavailable): the n reminders committed before it stay, the session is
\* closed, the run is logged as failed (tick) and the job stays scheduled
check_upcoming_appointments_raise ==
    /\ now >= next_run_time
    /\ LET sel == upcoming_appointments(now)
           reminders == reminders_for(sel, 1, Len(notifications) + 1)
       IN \E n \in 0..Len(reminders) :
             /\ n = 0 \/ n < Len(reminders)
             /\ Len(notifications) + n <= MaxNotifications
             /\ notifications' = notifications \o SubSeq(reminders, 1, n)
    /\ next_run_time' = next_run_time + Hour
    /\ tick' = [pc |-> "failed", selected |-> <<>>]
    /\ UNCHANGED <<working_hours, wh_next_id, appointments, now, response, inflight>>

SchedFailNext ==
    \/ \E d \in Providers, b \in PlainBodies :
          create_working_hours(d, d, b)
    \/ \E u \in Patients, d \in Providers, t \in BoundaryStarts :
          create_appointment(u, d, t)
    \/ check_upcoming_appointments
    \/ check_upcoming_appointments_raise
    \/ advance_clock

SpecSchedFail == Init /\ [][SchedFailNext]_vars

----------------------------------------------------------------------------
(* GET /api/doctors/{doctor_id}/available-slots as a request, on a store    *)
(* that holds working-hours rows when the service starts                    *)

get_available_slots_handler_dropFirst(doctor_id, date_str) ==
    /\ IF date_str = None
       THEN response' = Resp(400, "Invalid date format. Use YYYY-MM-DD.")
       ELSE LET slots == get_available_slots(doctor_id, date_str) IN
            response' = [code |-> 200, detail |-> "",
                         slots |-> SubSeq(slots, 2, Len(slots))]
    /\ UNCHANGED <<working_hours, wh_next_id, appointments, notifications, now,
                   next_run_time, inflight, tick>>

\* the handler get_available_slots: None stands for a date string that
\* strptime rejects
get_available_slots_handler(doctor_id, date_str) ==
    /\ IF date_str = None
       THEN response' = Resp(400, "Invalid date format. Use YYYY-MM-DD.")
       ELSE response' = [code |-> 200, detail |-> "",
                         slots |-> get_available_slots(doctor_id, date_str)]
    /\ UNCHANGED <<working_hours, wh_next_id, appointments, notifications, now,
                   next_run_time, inflight, tick>>

\* a weekday on which no booking of the model starts
OtherWeekday == CHOOSE w \in 0..6 : w \notin Weekdays

\* rows of table working_hours found at startup: for each provider and each
\* weekday of the model an entry that is switched off (is_available is a column
\* no handler writes; it is set in the store) and one that is available, and an
\* available entry for another weekday; all for the whole day, without a break
StoredWorkingHours ==
    UNION {{WorkingHoursRow(1, d, Body(wd, 0, TimeMax, FALSE, None, None), FALSE),
            WorkingHoursRow(2, d, Body(OtherWeekday, 0, TimeMax, FALSE, None, None), TRUE),
            WorkingHoursRow(3, d, Body(wd, 0, TimeMax, FALSE, None, None), TRUE)}
           : d \in Providers, wd \in Weekdays}

InitStored ==
    /\ working_hours \in SUBSET StoredWorkingHours
    /\ wh_next_id = Cardinality(StoredWorkingHours) + 1
    /\ appointments = <<>>
    /\ notifications = <<>>
    /\ now = StartupTime
    /\ next_run_time = StartupTime + Hour
    /\ response = Resp(0, "")
    /\ inflight = [w \in Workers |-> IdleWorker]
    /\ tick = IdleTick

\* starts on the hour and on the half hour: bookings on and off the slot
\* grid, equal, overlapping and abutting
HalfHourStarts == {t \in StartTimes : t % (Hour \div 2) = 0}

SlotsNext ==
    \/ \E u \in Users, d \in Doctors, t \in HalfHourStarts :
          create_appointment(u, d, t)
    \/ \E d \in Doctors, id \in AppointmentIds :
          update_appointment_status(d, id, CANCELLED)
    \/ \E d \in Doctors, date_str \in Dates \cup {None} :
          get_available_slots_handler(d, date_str)

SpecSlots == InitStored /\ [][SlotsNext]_vars

----------------------------------------------------------------------------
(* The working-hours handlers alone, called by every user for every doctor  *)

HoursNext ==
    \/ \E u \in Users, d \in Doctors, b \in WorkingHoursCreate :
          create_working_hours(u, d, b)
    \/ \E u \in Users, d \in Doctors, id \in WorkingHoursIds, b \in WorkingHoursCreate :
          update_working_hours(u, d, id, b)
    \/ \E u \in Users, d \in Doctors, id \in WorkingHoursIds :
          delete_working_hours(u, d, id)

SpecHours == Init /\ [][HoursNext]_vars

----------------------------------------------------------------------------
(* NotificationLog: routers/notifications.py *)

mark_notification_read(current_user, notification_id) ==
    /\ IF \/ notification_id \notin 1..Len(notifications)
          \/ notifications[notification_id].user_id # current_user
       THEN /\ response' = Resp(404, "Notification not found")
            /\ UNCHANGED notifications
       ELSE /\ notifications' =
                  [notifications EXCEPT ![notification_id].is_read = TRUE]
            /\ response' = Resp(200, "Notification marked as read")
    /\ UNCHANGED <<working_hours, wh_next_id, appointments, now, next_run_time,
                   inflight, tick>>

mark_all_notifications_read_everyone(current_user) ==
    /\ notifications' =
          [k \in 1..Len(notifications) |-> [notifications[k] EXCEPT !.is_read = TRUE]]
    /\ response' = Resp(200, "All notifications marked as read")
    /\ UNCHANGED <<working_hours, wh_next_id, appointments, now, next_run_time,
                   inflight, tick>>

mark_all_notifications_read(current_user) ==
    /\ notifications' =
          [k \in 1..Len(notifications) |->
              IF /\ notifications[k].user_id = current_user
                 /\ notifications[k].is_read = FALSE
              THEN [notifications[k] EXCEPT !.is_read = TRUE]
              ELSE notifications[k]]
    /\ response' = Resp(200, "All notifications marked as read")
    /\ UNCHANGED <<working_hours, wh_next_id, appointments, now, next_run_time,
                   inflight, tick>>

NotificationIds == 1..MaxNotifications

NotifNext ==
    \/ \E d \in Providers, b \in PlainBodies :
          create_working_hours(d, d, b)
    \/ \E u \in Patients, d \in Providers, t \in SlotStarts :
          create_appointment(u, d, t)
    \/ \E u \in Users, id \in NotificationIds :
          mark_notification_read(u, id)
    \/ \E u \in Users :
          mark_all_notifications_read(u)
    \/ check_upcoming_appointments
    \/ advance_clock

SpecNotif == Init /\ [][NotifNext]_vars

----------------------------------------------------------------------------
(* The reminder job taken statement by statement, next to status updates *)

\* the ids in sel from id from on, in the order the query returns the rows
RECURSIVE selected_rows(_, _)
selected_rows(sel, from) ==
    IF from > Len(appointments) THEN <<>>
    ELSE IF from \in sel THEN <<from>> \o selected_rows(sel, from + 1)
         ELSE selected_rows(sel, from + 1)

\* db.query(Appointment).filter(...).all(): the rows are loaded once
check_upcoming_appointments_query ==
    /\ tick.pc = "idle"
    /\ now >= next_run_time
    /\ tick' = [pc |-> "loop", selected |-> selected_rows(upcoming_appointments(now), 1)]
    /\ UNCHANGED <<working_hours, wh_next_id, appointments, notifications, now,
                   next_run_time, response, inflight>>

\* one pass of the loop: a reminder for the next loaded row, committed
check_upcoming_appointments_remind ==
    /\ tick.pc = "loop"
    /\ tick.selected # <<>>
    /\ Len(notifications) < MaxNotifications
    /\ notifications' = Append(notifications,
          create_appointment_notification(Len(notifications) + 1,
                                          appointments[Head(tick.selected)], "reminder"))
    /\ tick' = [tick EXCEPT !.selected = Tail(tick.selected)]
    /\ UNCHANGED <<working_hours, wh_next_id, appointments, now, next_run_time,
                   response, inflight>>

\* the loop is over: db.close(), and the job waits for its next run time
check_upcoming_appointments_close ==
    /\ tick.pc = "loop"
    /\ tick.selected = <<>>
    /\ tick' = IdleTick
    /\ next_run_time' = next_run_time + Hour
    /\ UNCHANGED <<working_hours, wh_next_id, appointments, notifications, now,
                   response, inflight>>

TickNext ==
    \/ \E d \in Providers, b \in PlainBodies :
          create_working_hours(d, d, b)
    \/ \E u \in Patients, d \in Providers, t \in BoundaryStarts :
          create_appointment(u, d, t)
    \/ \E d \in Providers, id \in 1..MaxAppointments, st \in {CONFIRMED, CANCELLED} :
          update_appointment_status(d, id, st)
    \/ check_upcoming_appointments_query
    \/ check_upcoming_appointments_remind
    \/ check_upcoming_appointments_close
    \/ advance_clock

SpecTick == Init /\ [][TickNext]_vars

----------------------------------------------------------------------------
(* Bookings by every user against every kind of working-hours entry *)

\* the bodies for a Monday: with and without a break, short and long windows
MondayBodies == {b \in WorkingHoursCreate : b.day_of_week = 0}

BookNext ==
    \/ \E d \in Providers, b \in MondayBodies :
          create_working_hours(d, d, b)
    \/ \E u \in Users, d \in Doctors, t \in HalfHourStarts :
          create_appointment(u, d, t)

SpecBook == Init /\ [][BookNext]_vars

----------------------------------------------------------------------------
(* Every user acting in every role: as the doctor of working hours, as the   *)
(* requester and as the doctor of a booking                                  *)

RolesNext ==
    \/ \E u \in Users, d \in Users, b \in PlainBodies :
          create_working_hours(u, d, b)
    \/ \E u \in Users, d \in Users, id \in WorkingHoursIds, b \in PlainBodies :
          update_working_hours(u, d, id, b)
    \/ \E u \in Users, d \in Users, id \in WorkingHoursIds :
          delete_working_hours(u, d, id)
    \/ \E u \in Users, d \in Users, t \in SlotStarts :
          create_appointment(u, d, t)

SpecRoles == Init /\ [][RolesNext]_vars

----------------------------------------------------------------------------
(* The hourly job under its trigger: a due run is carried out and the clock *)
(* does not stand still                                                      *)

\* a start at midnight, which only the run before midnight reminds, and one
\* just beyond the horizon of the job's first run
LiveStarts == {0, 2 * Hour + 1}

LiveNext ==
    \/ \E d \in Providers, b \in PlainBodies :
          create_working_hours(d, d, b)
    \/ \E u \in Patients, d \in Providers, t \in LiveStarts :
          create_appointment(u, d, t)
    \/ \E d \in Providers, id \in 1..MaxAppointments :
          update_appointment_status(d, id, CANCELLED)
    \/ check_upcoming_appointments
    \/ advance_clock

SpecSchedLive ==
    /\ Init
    /\ [][LiveNext]_vars
    /\ WF_vars(check_upcoming_appointments)
    /\ WF_vars(advance_clock)

----------------------------------------------------------------------------
(* Properties *)

Overlap(a, b) == a.start_time < b.end_time /\ b.start_time < a.end_time

\* C1: for each provider, no two appointments whose status is not cancelled
\* have overlapping half-open intervals [start, end).
C1_NoOverlap ==
    \A i, j \in 1..Len(appointments) :
        (/\ i < j
         /\ appointments[i].doctor_id = appointments[j].doctor_id
         /\ appointments[i].status # CANCELLED
         /\ appointments[j].status # CANCELLED)
        => ~Overlap(appointments[i], appointments[j])

\* the slot of get_available_slots's output as the booking a client proposes
SlotStart(target_date, slot) == Combine(target_date, slot.start_time)

\* C3: soundness of availability: every slot get_available_slots returns for a
\* provider and date is admitted by is_time_slot_available in the same state.
C3_SlotsAreAdmitted ==
    \A d \in Doctors, target_date \in Dates :
        LET slots == get_available_slots(d, target_date) IN
        \A k \in 1..Len(slots) :
            is_time_slot_available(d, SlotStart(target_date, slots[k]),
                                   SlotStart(target_date, slots[k]) + Hour) = "True"

\* C4: completeness of availability: every one-hour interval that
\* is_time_slot_available admits is in get_available_slots's output for the
\* provider and the interval's date in the same state.
C4_AdmittedAreSlots ==
    \A d \in Doctors, t \in StartTimes :
        is_time_slot_available(d, t, t + Hour) = "True"
        => LET slots == get_available_slots(d, DateOf(t)) IN
           \E k \in 1..Len(slots) :
               slots[k] = [start_time |-> TimeOf(t), end_time |-> TimeOf(t + Hour)]

AllowedTransitions ==
    {<<SCHEDULED, CONFIRMED>>, <<CONFIRMED, IN_PROGRESS>>, <<IN_PROGRESS, COMPLETED>>,
     <<SCHEDULED, CANCELLED>>, <<CONFIRMED, CANCELLED>>, <<IN_PROGRESS, CANCELLED>>}

\* C5: a status change succeeds only for a pair (current, target) of the
\* lifecycle's transition table; any other request fails and leaves the
\* appointment's status unchanged.
C5_OnlyTableTransitions ==
    [][\A u \in Users, id \in 1..Len(appointments), st \in AppointmentStatus :
         (/\ update_appointment_status(u, id, st)
          /\ st # appointments[id].status
          /\ <<appointments[id].status, st>> \notin AllowedTransitions)
         => /\ response'.code # 200
            /\ appointments'[id].status = appointments[id].status]_vars

\* C6: completed and cancelled are terminal: once an appointment is completed
\* or cancelled no later operation changes its status.
C6_TerminalStatuses ==
    [][\A id \in 1..Len(appointments) :
         appointments[id].status \in {COMPLETED, CANCELLED}
         => appointments'[id].status = appointments[id].status]_vars

IsProvider(u, id) == u = appointments[id].doctor_id /\ is_doctor(u)

\* C7: a status update or check-in by any user other than the appointment's
\* own doctor is rejected as unauthorized (403) and leaves the appointment
\* unchanged.
C7_OnlyProviderMayUpdate ==
    [][\A u \in Users, id \in 1..Len(appointments) :
         ~IsProvider(u, id)
         => /\ \A st \in AppointmentStatus :
                 update_appointment_status(u, id, st)
                 => response'.code = 403 /\ appointments' = appointments
            /\ check_in_appointment(u, id)
                 => response'.code = 403 /\ appointments' = appointments]_vars

Confirmations(ns, id) ==
    {k \in 1..Len(ns) : /\ ns[k].appointment_id = id
                         /\ ns[k].title = "Appointment Confirmed"}

\* C8: every successful booking adds one appointment, in status scheduled, for
\* the requested provider and start, and exactly one notification: its
\* confirmation, addressed to the requester and referencing the appointment;
\* no appointment is created any other way or with any other status.
C8_BookingScheduledAndConfirmed ==
    [][/\ response'.code = 200 /\ UNCHANGED <<working_hours, now, next_run_time>>
          => \A u \in Users, d \in Doctors, t \in StartTimes :
            create_appointment(u, d, t)
            => /\ Len(appointments') = Len(appointments) + 1
               /\ appointments'[Len(appointments')].doctor_id = d
               /\ appointments'[Len(appointments')].patient_id = u
               /\ appointments'[Len(appointments')].start_time = t
       /\ Len(appointments') # Len(appointments)
            => LET id == Len(appointments')
                   new == {k \in 1..Len(notifications') : k > Len(notifications)}
               IN /\ id = Len(appointments) + 1
                  /\ appointments'[id].id = id
                  /\ appointments'[id].status = SCHEDULED
                  /\ response'.code = 200
                  /\ Cardinality(new) = 1
                  /\ Confirmations(notifications', id) = new
                  /\ \A k \in new : notifications'[k].user_id =
                                         appointments'[id].patient_id]_vars

C8_Witness ==
    /\ Len(appointments) = MaxAppointments
    /\ response = Resp(200, "")
    /\ \A id \in 1..Len(appointments) : Confirmations(notifications, id) # {}

\* C2: of two bookings for the same provider with overlapping intervals that
\* are handled concurrently at most one is stored: no two workers have both
\* inserted overlapping appointments.
C2_AtMostOneWinner ==
    \A w1, w2 \in Workers :
        (/\ w1 # w2
         /\ inflight[w1].appointment_id # None
         /\ inflight[w2].appointment_id # None
         /\ inflight[w1].doctor_id = inflight[w2].doctor_id)
        => ~Overlap(appointments[inflight[w1].appointment_id],
                    appointments[inflight[w2].appointment_id])

\* C9: appointment creation and its confirmation are atomic: every stored
\* appointment has its confirmation notification and every confirmation
\* refers to a stored appointment, in every state.
C9_AppointmentHasConfirmation ==
    /\ \A id \in 1..Len(appointments) :
          Cardinality(Confirmations(notifications, id)) = 1
    /\ \A k \in 1..Len(notifications) :
          notifications[k].title = "Appointment Confirmed"
          => notifications[k].appointment_id \in 1..Len(appointments)

RemindersOf(ns, from, id) ==
    {k \in 1..Len(ns) : /\ k > from
                         /\ ns[k].appointment_id = id
                         /\ ns[k].title = "Appointment Reminder"}

\* C10: a run of the reminder job at time T adds exactly one reminder, to the
\* patient, for each appointment with status scheduled and T < start <= T + 24h,
\* adds nothing else and changes no existing notification.
C10_TickRemindsExactlyDue ==
    [][next_run_time' # next_run_time =>
         LET T == now
             old == Len(notifications)
             added == {k \in 1..Len(notifications') : k > old}
         IN /\ \A k \in 1..old : notifications'[k] = notifications[k]
            /\ \A id \in 1..Len(appointments) :
                  Cardinality(RemindersOf(notifications', old, id)) =
                     IF /\ appointments[id].status = SCHEDULED
                        /\ T < appointments[id].start_time
                        /\ appointments[id].start_time <= T + DayLen
                     THEN 1 ELSE 0
            /\ \A k \in added :
                  /\ notifications'[k].appointment_id \in 1..Len(appointments)
                  /\ k \in RemindersOf(notifications', old,
                                        notifications'[k].appointment_id)
                  /\ notifications'[k].user_id =
                        appointments[notifications'[k].appointment_id].patient_id]_vars

\* a run has reminded a scheduled appointment and passed over a cancelled one
\* that starts inside the window
C10_Witness ==
    /\ next_run_time = StartupTime + 2 * Hour
    /\ now = StartupTime + Hour
    /\ \E i, j \in 1..Len(appointments) :
          /\ appointments[i].status = SCHEDULED
          /\ appointments[i].start_time = now + DayLen
          /\ RemindersOf(notifications, 0, i) # {}
          /\ appointments[j].status = CANCELLED
          /\ appointments[j].start_time > now
          /\ appointments[j].start_time <= now + DayLen
          /\ RemindersOf(notifications, 0, j) = {}

\* C11: no appointment is placed outside declared working hours: the interval
\* [start, start + 1h) of every booking that is admitted lies inside the window
\* of the doctor's available working-hours entry for the weekday of its start,
\* on the date of its start (a booking that ends on the next day is outside).
C11_AdmittedInsideWindow ==
    [][\A i \in 1..Len(appointments') :
         i > Len(appointments) =>
           LET a == appointments'[i]
               d == DateOf(a.start_time)
               wh == lookup_working_hours(a.doctor_id, Weekday(d))
           IN /\ wh # NoRow
              /\ Combine(d, wh.start_time) <= a.start_time
              /\ a.end_time <= Combine(d, wh.end_time)]_vars

\* the entry declares a break with both of its bounds
BreakDeclared(wh) ==
    /\ wh # NoRow
    /\ wh.has_break
    /\ wh.break_start # None
    /\ wh.break_end # None

\* the half-open overlap test between the proposal [s, e) and the break
IntersectsBreak(wh, s, e) == s < wh.break_end /\ e > wh.break_start

\* C12: when the entry for the proposal's weekday declares a break, the booking
\* check rejects every proposal [start, start + 1h) that intersects the break
\* under the half-open test start < break_end and end > break_start.
C12_BreakOverlapRejected ==
    \A d \in Doctors, t \in StartTimes :
        LET wh == lookup_working_hours(d, Weekday(DateOf(t))) IN
        (BreakDeclared(wh) /\ IntersectsBreak(wh, TimeOf(t), TimeOf(t) + Hour))
        => is_time_slot_available(d, t, t + Hour) = "False"

\* the proposal [t, t + 1h) lies inside the window of wh on the date of t
InsideWindow(wh, t) ==
    /\ wh # NoRow
    /\ wh.start_time <= TimeOf(t)
    /\ TimeOf(t) + Hour <= wh.end_time

\* a stored appointment of the doctor that is not cancelled overlaps [t, t + 1h)
OverlapsStored(d, t) ==
    \E i \in 1..Len(appointments) :
        /\ appointments[i].doctor_id = d
        /\ appointments[i].status # CANCELLED
        /\ appointments[i].start_time < t + Hour
        /\ t < appointments[i].end_time

\* C13: a proposal that only touches the break (its end equals break_start, or
\* its start equals break_end), lies inside the working hours and overlaps no
\* appointment that is not cancelled, is admitted by the booking check.
C13_TouchingBreakAdmitted ==
    \A d \in Doctors, t \in StartTimes :
        LET wh == lookup_working_hours(d, Weekday(DateOf(t))) IN
        (/\ BreakDeclared(wh)
         /\ wh.break_start < wh.break_end
         /\ TimeOf(t) + Hour = wh.break_start \/ TimeOf(t) = wh.break_end
         /\ ~IntersectsBreak(wh, TimeOf(t), TimeOf(t) + Hour)
         /\ InsideWindow(wh, t)
         /\ ~OverlapsStored(d, t))
        => is_time_slot_available(d, t, t + Hour) = "True"

\* a stored appointment of the doctor that is not cancelled ends where
\* [t, t + 1h) starts, or starts where it ends
AbutsStored(d, t) ==
    \E i \in 1..Len(appointments) :
        /\ appointments[i].doctor_id = d
        /\ appointments[i].status # CANCELLED
        /\ appointments[i].end_time = t \/ appointments[i].start_time = t + Hour

\* the entry has no break, or a well-formed one that [t, t + 1h) does not intersect
OutsideBreak(wh, t) ==
    \/ ~wh.has_break
    \/ /\ BreakDeclared(wh)
       /\ wh.break_start < wh.break_end
       /\ ~IntersectsBreak(wh, TimeOf(t), TimeOf(t) + Hour)

\* C14: a proposal that exactly abuts a stored appointment of the same doctor
\* that is not cancelled, overlaps none, and lies inside the working hours and
\* outside the break, is admitted; and the overlap check of the booking agrees
\* with the half-open test a < d and c < b on every proposal.
C14_AbuttingAdmitted ==
    \A d \in Doctors, t \in StartTimes :
        LET wh == lookup_working_hours(d, Weekday(DateOf(t))) IN
        /\ overlapping_appointment(d, t, t + Hour) <=> OverlapsStored(d, t)
        /\ (/\ AbutsStored(d, t)
            /\ ~OverlapsStored(d, t)
            /\ InsideWindow(wh, t)
            /\ OutsideBreak(wh, t))
           => is_time_slot_available(d, t, t + Hour) = "True"

\* C15: with the handlers run one after the other, a booking request whose
\* interval overlaps a stored appointment of the same doctor that is not
\* cancelled is rejected and stores nothing; so a second request for the same
\* doctor and start is rejected while the first appointment is not cancelled.
C15_OverlappingBookingRejected ==
    [][LET rejected == /\ response'.code \in {400, 403}
                       /\ appointments' = appointments
                       /\ notifications' = notifications
       IN rejected \/ \A d \in Doctors, t \in StartTimes :
                         OverlapsStored(d, t)
                         => \A u \in Users : create_appointment(u, d, t) => rejected]_vars

\* the second request of scenario 1 has been answered: one appointment is
\* stored, not cancelled, and the last booking request was turned down
C15_Witness ==
    /\ Len(appointments) = 1
    /\ appointments[1].status # CANCELLED
    /\ appointments[1].doctor_id \in Providers
    /\ \E w \in working_hours : /\ w.doctor_id = appointments[1].doctor_id
                                 /\ w.is_available /\ ~w.has_break
    /\ response = Resp(400, "Time slot is not available")

\* the doctor has no working-hours entry for the weekday of the date that is
\* available: none at all, or only entries with is_available false
NoAvailableEntry(d, date) ==
    ~\E w \in working_hours : /\ w.doctor_id = d
                              /\ w.day_of_week = Weekday(date)
                              /\ w.is_available

\* C16: when the doctor has no working-hours entry for the target weekday, or
\* only one with is_available false, the available-slots request answers 200
\* with the empty sequence and every booking request for that doctor starting
\* on that date is rejected and stores nothing.
C16_NoEntryNoSlots ==
    [][LET rejected == /\ response'.code \in {400, 403}
                       /\ appointments' = appointments
                       /\ notifications' = notifications
       IN \A d \in Doctors, date \in Dates :
            NoAvailableEntry(d, date)
            => /\ get_available_slots_handler(d, date)
                  => response'.code = 200 /\ response'.slots = <<>>
               /\ rejected \/ \A u \in Users, t \in StartTimes :
                                 (DateOf(t) = date /\ create_appointment(u, d, t))
                                 => rejected]_vars

\* the slots of a provider whose only entry for the weekday is switched off,
\* next to an available entry for another weekday, have been asked for
C16_Witness ==
    /\ \E p \in Providers, date \in Dates :
          /\ NoAvailableEntry(p, date)
          /\ \E w \in working_hours : /\ w.doctor_id = p
                                      /\ w.day_of_week = Weekday(date)
                                      /\ ~w.is_available
          /\ \E w \in working_hours : w.doctor_id = p /\ w.is_available
    /\ response = [code |-> 200, detail |-> "", slots |-> <<>>]

\* the slot [t, t + 1h) as get_available_slots writes it
SlotOf(t) == [start_time |-> strftimeHM(TimeOf(t)),
              end_time |-> strftimeHM(TimeOf(t + Hour))]

\* C17: the available slots are computed from the appointments that are not
\* cancelled: the slot of a cancelled appointment that is on the slot grid,
\* inside the working hours, outside the break and not overlapped by another
\* appointment that is not cancelled, is in the output for its date.
C17_CancelledSlotReappears ==
    \A i \in 1..Len(appointments) :
        LET a == appointments[i]
            date == DateOf(a.start_time)
            wh == lookup_working_hours(a.doctor_id, Weekday(date))
            slots == get_available_slots(a.doctor_id, date)
        IN (/\ a.status = CANCELLED
            /\ InsideWindow(wh, a.start_time)
            /\ (TimeOf(a.start_time) - wh.start_time) % Hour = 0
            /\ OutsideBreak(wh, a.start_time)
            /\ ~OverlapsStored(a.doctor_id, a.start_time))
           => \E k \in 1..Len(slots) : slots[k] = SlotOf(a.start_time)

\* C18: for every doctor and date the available-slots output is strictly
\* ascending by start time and pairwise non-overlapping, each slot is exactly
\* one hour long, starts a whole number of hours after window.start and ends
\* at or before window.end.
C18_SlotsOrderedAligned ==
    \A d \in Doctors, date \in Dates :
        LET wh == lookup_working_hours(d, Weekday(date))
            slots == get_available_slots(d, date)
        IN /\ \A k \in 1..Len(slots) :
                 /\ slots[k].end_time - slots[k].start_time = Hour
                 /\ slots[k].start_time >= wh.start_time
                 /\ (slots[k].start_time - wh.start_time) % Hour = 0
                 /\ slots[k].end_time <= wh.end_time
           /\ \A k \in 1..Len(slots) - 1 :
                 /\ slots[k].start_time < slots[k + 1].start_time
                 /\ slots[k].end_time <= slots[k + 1].start_time

C20_WindowStartBeforeEnd ==
    \A w \in working_hours : w.start_time < w.end_time

\* C21: every stored working-hours entry that declares a break has both break
\* bounds, break_start < break_end, and the break strictly inside the window:
\* window.start < break_start and break_end < window.end.
C21_BreakInsideWindow ==
    \A w \in working_hours :
        w.has_break
        => /\ w.break_start # None
           /\ w.break_end # None
           /\ w.break_start < w.break_end
           /\ w.start_time < w.break_start
           /\ w.break_end < w.end_time

\* a body that create_working_hours has to turn down
Malformed(body) ==
    \/ body.start_time >= body.end_time
    \/ /\ body.has_break
       /\ \/ body.break_start = None
          \/ body.break_end = None
          \/ body.break_start >= body.break_end

\* C22: a create request whose body has start >= end, or has_break with a
\* missing break bound or break_start >= break_end, is rejected and leaves the
\* stored working-hours entries unchanged.
C22_MalformedCreateRejected ==
    [][LET rejected == /\ response'.code \in {400, 403}
                       /\ working_hours' = working_hours
                       /\ wh_next_id' = wh_next_id
       IN rejected \/ \A u \in Users, d \in Doctors, b \in WorkingHoursCreate :
                         (Malformed(b) /\ create_working_hours(u, d, b)) => rejected]_vars

\* a doctor with a stored entry has had a malformed break turned down
C22_Witness ==
    /\ working_hours # {}
    /\ wh_next_id <= MaxWorkingHours
    /\ response = Resp(400, "Break start time must be before break end time")

\* C23: for each doctor and each weekday at most one stored working-hours
\* entry has is_available true, so the lookups of the booking check and of the
\* available-slots operation have a single entry to resolve to.
C23_OneEntryPerWeekday ==
    \A v, w \in working_hours :
        (/\ v.doctor_id = w.doctor_id
         /\ v.day_of_week = w.day_of_week
         /\ v.is_available
         /\ w.is_available)
        => v.id = w.id

\* C24: every stored appointment has end_time - start_time = one hour, and no
\* operation changes the start_time or end_time of a stored appointment.
C24_DurationOneHour ==
    [][/\ \A i \in 1..Len(appointments') :
             appointments'[i].end_time - appointments'[i].start_time = Hour
       /\ \A i \in 1..Len(appointments) :
             i <= Len(appointments')
             => /\ appointments'[i].start_time = appointments[i].start_time
                /\ appointments'[i].end_time = appointments[i].end_time]_vars

\* the table is full and an appointment has gone through status changes up to
\* completed, still one hour long
C24_Witness ==
    /\ Len(appointments) = MaxAppointments
    /\ \E i \in 1..Len(appointments) :
          /\ appointments[i].status = COMPLETED
          /\ appointments[i].end_time = appointments[i].start_time + Hour

\* C25: appointments are never deleted and change only in their status: every
\* stored appointment is present after every step under the same id with its
\* doctor, patient, start and end unchanged, and a cancellation that succeeds
\* does nothing but set the status of that appointment to cancelled.
C25_NeverDeletedOnlyStatus ==
    [][/\ Len(appointments') >= Len(appointments)
       /\ \A i \in 1..Len(appointments) :
             /\ i <= Len(appointments')
             /\ [appointments'[i] EXCEPT !.status = appointments[i].status]
                   = appointments[i]
       /\ \A d \in Doctors, id \in 1..Len(appointments) :
             (update_appointment_status(d, id, CANCELLED) /\ response'.code = 200)
             => appointments' = [appointments EXCEPT ![id].status = CANCELLED]]_vars

\* the first of the stored appointments has been cancelled and is still stored
C25_Witness ==
    /\ Len(appointments) = MaxAppointments
    /\ appointments[1].id = 1
    /\ appointments[1].status = CANCELLED
    /\ response = Resp(200, "Appointment status updated successfully")

\* C26: a stored notification changes in is_read only, and only from a
\* mark-read or mark-all-read request of its recipient, which sets it to true;
\* a mark-read request for a notification of another user is rejected (404)
\* and changes nothing, and a mark-all-read request leaves the notifications
\* of other users as they are.
C26_OnlyRecipientMarksRead ==
    [][/\ Len(notifications') >= Len(notifications)
       /\ \A k \in 1..Len(notifications) :
             /\ [notifications'[k] EXCEPT !.is_read = notifications[k].is_read]
                   = notifications[k]
             /\ notifications'[k].is_read # notifications[k].is_read
                => /\ notifications'[k].is_read = TRUE
                   /\ \/ mark_notification_read(notifications[k].user_id, k)
                      \/ mark_all_notifications_read(notifications[k].user_id)
       /\ \A u \in Users, k \in 1..Len(notifications) :
             (/\ u # notifications[k].user_id
              /\ response'.code # 404 \/ notifications' # notifications)
             => ~mark_notification_read(u, k)
       /\ \A u \in Users, k \in 1..Len(notifications) :
             (u # notifications[k].user_id /\ notifications'[k] # notifications[k])
             => ~mark_all_notifications_read(u)]_vars

\* the patient has read one confirmation, the other is unread, and the last
\* request, for a notification of somebody else, was turned down
C26_Witness ==
    /\ Len(notifications) = MaxAppointments
    /\ \E j, k \in 1..Len(notifications) :
          notifications[j].is_read /\ ~notifications[k].is_read
    /\ response = Resp(404, "Notification not found")

\* C27: a run of the reminder job changes no appointment and no working-hours
\* entry; its only effect on the store is to add notifications after the
\* existing ones.
C27_TickOnlyAddsNotifications ==
    [][next_run_time' # next_run_time
       => /\ appointments' = appointments
          /\ working_hours' = working_hours
          /\ wh_next_id' = wh_next_id
          /\ Len(notifications') >= Len(notifications)
          /\ SubSeq(notifications', 1, Len(notifications)) = notifications]_vars

\* a run of the job has added a reminder for a scheduled appointment of a
\* doctor with working hours
C27_Witness ==
    /\ next_run_time > StartupTime + Hour
    /\ working_hours # {}
    /\ \E i \in 1..Len(appointments) :
          /\ appointments[i].status = SCHEDULED
          /\ \E k \in 1..Len(notifications) :
                /\ notifications[k].appointment_id = i
                /\ notifications[k].title = "Appointment Reminder"
                /\ k = Len(notifications)

ReminderCount(ns, id) == Cardinality(RemindersOf(ns, 0, id))

\* C28: reminders are not deduplicated across runs of the job: every run adds
\* one more reminder for each appointment that is scheduled and inside the
\* lookahead window at the time of the run, whatever reminders it already has,
\* and no other step changes the number of its reminders; so n successive
\* runs give it exactly n reminders.
C28_OneReminderPerTick ==
    [][\/ notifications' = notifications /\ next_run_time' = next_run_time
       \/ \A i \in 1..Len(appointments) :
            ReminderCount(notifications', i) =
               ReminderCount(notifications, i) +
                  (IF /\ next_run_time' # next_run_time
                      /\ appointments[i].status = SCHEDULED
                      /\ now < appointments[i].start_time
                      /\ appointments[i].start_time <= now + DayLen
                   THEN 1 ELSE 0)]_vars

\* an appointment that stayed scheduled over two runs of the job has two reminders
C28_Witness ==
    /\ next_run_time = StartupTime + 3 * Hour
    /\ \E i \in 1..Len(appointments) :
          /\ appointments[i].status = SCHEDULED
          /\ ReminderCount(notifications, i) = 2

\* C29: a run of the reminder job that raises does not stop the scheduler:
\* the job's next run time is one interval after the run that failed, and a
\* run that follows a failed one and does not raise happens at its run time
\* and adds exactly one reminder for each appointment that is scheduled and
\* due at that time.
C29_FailedTickIsRetried ==
    [][next_run_time' # next_run_time
       => /\ next_run_time' = next_run_time + Hour
          /\ (tick.pc = "failed" /\ check_upcoming_appointments)
             => /\ now = next_run_time
                /\ \A id \in 1..Len(appointments) :
                      Cardinality(RemindersOf(notifications', Len(notifications), id)) =
                         IF /\ appointments[id].status = SCHEDULED
                            /\ now < appointments[id].start_time
                            /\ appointments[id].start_time <= now + DayLen
                         THEN 1 ELSE 0]_vars

\* the first run of the job failed, and the second run, one interval later,
\* has reminded the only appointment, which became due at the second run
C29_Witness ==
    /\ tick.pc = "failed"
    /\ next_run_time = StartupTime + 3 * Hour
    /\ Len(appointments) = 1
    /\ appointments[1].start_time > StartupTime + Hour + DayLen
    /\ ReminderCount(notifications, 1) = 1

\* the reason the first failing check gives for the proposal [t, t + 1h) of
\* doctor d, in the order overlap, availability, window containment, break
RejectionReason(d, t) ==
    LET wh == lookup_working_hours(d, Weekday(DateOf(t))) IN
    IF OverlapsStored(d, t) THEN "overlap"
    ELSE IF wh = NoRow THEN "no availability"
    ELSE IF ~InsideWindow(wh, t) THEN "outside working hours"
    ELSE IF BreakDeclared(wh) /\ IntersectsBreak(wh, TimeOf(t), TimeOf(t) + Hour)
    THEN "inside break"
    ELSE "none"

\* C30: the answer to a rejected booking tells the reason of the rejection:
\* one answer is never the answer to two rejected proposals whose first
\* failing checks (overlap, availability, window containment, break, in that
\* order) differ.
C30_RejectionReasonReported ==
    [][response'.code # 400
       \/ \A u \in Patients, d1 \in Doctors, t1 \in StartTimes,
             d2 \in Doctors, t2 \in StartTimes :
             (create_appointment(u, d1, t1) /\ create_appointment(u, d2, t2))
             => RejectionReason(d1, t1) = RejectionReason(d2, t2)]_vars

\* C31: a reminder is only ever created for an appointment whose stored status
\* is scheduled at the moment the reminder is created, also when the job had
\* loaded the appointment before a status update was committed.
C31_NoReminderAfterStatusChange ==
    [][\A k \in (Len(notifications) + 1)..Len(notifications') :
          notifications'[k].title = "Appointment Reminder"
          => appointments[notifications'[k].appointment_id].status = SCHEDULED]_vars

\* C32: a booking request that is turned down (the requester is a doctor, or
\* the booking check fails) changes no appointment and no notification, and a
\* booking request that stores an appointment stores exactly one, for the
\* requested doctor and start time and for the requester.
C32_RejectedBookingStoresNothing ==
    [][/\ (/\ response'.code # 200
           /\ appointments' # appointments \/ notifications' # notifications)
          => ~\E u \in Users, d \in Doctors, t \in StartTimes :
                 create_appointment(u, d, t)
       /\ \A u \in Users, d \in Doctors, t \in StartTimes :
             (appointments' # appointments /\ create_appointment(u, d, t))
             => /\ Len(appointments') = Len(appointments) + 1
                /\ SubSeq(appointments', 1, Len(appointments)) = appointments
                /\ appointments'[Len(appointments')].doctor_id = d
                /\ appointments'[Len(appointments')].start_time = t
                /\ appointments'[Len(appointments')].patient_id = u]_vars

\* one booking is stored at the start asked for, and the last request, for a
\* start inside the break of the doctor's entry, was turned down
C32_Witness ==
    /\ Len(appointments) = 1
    /\ Len(notifications) = 1
    /\ appointments[1].start_time = 0
    /\ \E w \in working_hours : w.has_break
    /\ response = Resp(400, "Time slot is not available")

\* C33: the doctor of every stored appointment is a user registered as a
\* doctor and its patient is a user who is not, so the two are different users.
C33_DoctorAndPatientRoles ==
    \A i \in 1..Len(appointments) :
        /\ is_doctor(appointments[i].doctor_id)
        /\ ~is_doctor(appointments[i].patient_id)
        /\ appointments[i].doctor_id # appointments[i].patient_id

\* an appointment is stored, every doctor has working hours, and the last
\* request, a booking sent by a doctor, was turned down
C33_Witness ==
    /\ Len(appointments) = 1
    /\ \A d \in Doctors : \E w \in working_hours : w.doctor_id = d
    /\ response = Resp(403, "Doctors cannot create appointments")

\* appointment id is stored with status scheduled more than one hour before
\* its start, and a run of the job is still to come within the modelled time
AwaitsReminder(id) ==
    /\ id \in 1..Len(appointments)
    /\ appointments[id].status = SCHEDULED
    /\ now + Hour < appointments[id].start_time
    /\ next_run_time <= MaxNow

\* appointment id has a reminder and has not started yet, or is no longer
\* scheduled, or the notification store of the model is full
RemindedInTime(id) ==
    /\ id \in 1..Len(appointments)
    /\ \/ /\ ReminderCount(notifications, id) >= 1
          /\ now < appointments[id].start_time
       \/ appointments[id].status # SCHEDULED
       \/ Len(notifications) + Len(appointments) > MaxNotifications

\* C34: when the job runs every hour without failing, every appointment
\* that exists more than one hour before its start and stays scheduled
\* eventually has at least one reminder, created before its start time.
C34_ScheduledIsReminded ==
    \A id \in 1..MaxAppointments : AwaitsReminder(id) ~> RemindedInTime(id)

\* an appointment that starts beyond the horizon of the job's first run is
\* still scheduled and has its reminder before its start
C34_Witness ==
    /\ Len(appointments) >= 1
    /\ appointments[1].start_time = 2 * Hour + 1
    /\ appointments[1].status = SCHEDULED
    /\ ReminderCount(notifications, 1) >= 1
    /\ now < appointments[1].start_time

====
